---- MODULE Spec2Model ----
(***************************************************************************)
(* The bookshelf application: the layout engine of the bookshelf display   *)
(* (frontend/src/components/BookshelfDisplay.tsx), the book data provider  *)
(* and the admin provider (context/BookDataContext, context/AdminContext), *)
(* the page that mounts them (frontend/src/app/page.tsx) and the login     *)
(* page (frontend/src/app/login/page.tsx).                                 *)
(*                                                                         *)
(* Numbers.  The component computes with IEEE doubles; the model computes  *)
(* with exact rationals held as integers:                                  *)
(*   - a pixel length or an image-percentage v is held as v * Scale;       *)
(*   - a size multiplier m (a factor of viewportHeight) is held as         *)
(*     m * MScale;                                                         *)
(*   - viewportWidth, viewportHeight and containerDimensions are whole     *)
(*     pixels, viewportHeight a multiple of 100 so that every quotient of  *)
(*     the layout is exact.  ExactDiv has no value when a quotient is not  *)
(*     exact, so an inexact step stops the check instead of rounding.      *)
(***************************************************************************)
EXTENDS Integers, Sequences, FiniteSets, TLC

VARIABLES viewportWidth, viewportHeight, containerDimensions, isAdmin,
          currentlyReading, readBooks, bookPositions, spinePositions

\* BookDataProvider: its four useState cells
VARIABLES userData, loading, error, currentUsername

\* the apiGet requests of loadUserData: those awaiting their response, and the
\* usernames of all requests issued so far, in order; whether clearData was
\* called and loadUserData has not been called since
VARIABLES fetches, fetchLog, clearedLast

\* the page's selectedUsername (the display's username prop), and whether the
\* display's load effect is scheduled to run
VARIABLES selectedUsername, loadEffectPending

\* AdminProvider: showAdminControls beside isAdmin; the admin_key cookie; the
\* adminKey read by checkAdminStatus; whether its validation request awaits
\* the response, and how many validation requests were sent
VARIABLES showAdminControls, adminCookie, adminKey, validating, validateRequests

\* the display's imageLoaded flag; the event the background img element has
\* fired; whether the 3-second timeout of the fallback effect is running
VARIABLES imageLoaded, imageEvent, timeoutArmed

\* the login page: its useState cells apiKey, loading and error; the key of the
\* validation request awaiting its response; how many such requests were sent;
\* the last response handled; whether router.push('/') was called
VARIABLES apiKey, loginLoading, loginError, loginRequest, loginRequests,
          loginResponse, redirected

\* the page's refreshing and error cells; where handleRefresh is; the
\* selectedUsername it read when the button was clicked; the number of
\* collection requests issued when its re-scrape succeeded
VARIABLES refreshing, pageError, refreshStage, refreshUser, refreshMark

loginVars == <<apiKey, loginLoading, loginError, loginRequest, loginRequests,
               loginResponse, redirected>>

refreshVars == <<refreshing, pageError, refreshStage, refreshUser, refreshMark>>

formVars == <<loginVars, refreshVars>>

windowVars == <<viewportWidth, viewportHeight, containerDimensions>>

imageVars == <<imageLoaded, imageEvent, timeoutArmed>>

layoutVars == <<currentlyReading, readBooks, bookPositions, spinePositions>>

dataVars == <<userData, loading, error, currentUsername>>

netVars == <<fetches, fetchLog, clearedLast>>

pageVars == <<selectedUsername, loadEffectPending>>

adminVars == <<showAdminControls, adminCookie, adminKey, validating, validateRequests>>

vars == <<windowVars, imageVars, isAdmin, layoutVars, dataVars, netVars, pageVars, adminVars,
          formVars>>

----------------------------------------------------------------------------
(* Exact arithmetic *)

Scale == (2^6) * (3^2) * (5^4)

MScale == Scale * 5

RECURSIVE GCD(_, _)
GCD(a, b) == IF b = 0 THEN a ELSE GCD(b, a % b)

Abs(a) == IF a < 0 THEN -a ELSE a

\* a / d where d divides a; no value otherwise
ExactDiv(a, d) == IF a % d = 0 THEN a \div d ELSE CHOOSE q \in {} : q * d = a

\* x * n / d, cancelling common factors first so that no product overflows
MulDiv(x, n, d) ==
  LET g1 == GCD(Abs(x), d)
      x1 == x \div g1
      d1 == d \div g1
      g2 == GCD(Abs(n), d1)
      n1 == n \div g2
      d2 == d1 \div g2
  IN  ExactDiv(x1 * n1, d2)

\* the decimal n/d as a scaled value
Dec(n, d) == ExactDiv(n * Scale, d)

MDec(n, d) == ExactDiv(n * MScale, d)

Max(a, b) == IF a >= b THEN a ELSE b

Min(a, b) == IF a <= b THEN a ELSE b

\* JavaScript's missing value (undefined) of an optional numeric field
Undefined == -1

----------------------------------------------------------------------------
(* Cover placement: calculateBookPositions *)

bookAspectRatio == Dec(65, 100)

\* background_new.png is 2496 x 1664
aspectRatio == Dec(2496, 1664)

scale == Dec(133, 100)

viewportAspectRatioGE1(vw, vh) == vw >= vh

\* viewportAspectRatio > 1, for viewportAspectRatio = viewportWidth / viewportHeight
viewportAspectRatioGT1(vw, vh) == vw > vh

coverHeightHorizontal == Dec(27, 100)

coverHeightVertical == Dec(2, 10)

coverHeightMultiplier(horizontal) ==
  IF horizontal THEN coverHeightHorizontal ELSE coverHeightVertical

bookPositionsHorizontal ==
  << [x |-> Dec(52, 1),   y |-> Dec(77, 1)],
     [x |-> Dec(33, 1),   y |-> Dec(76, 1)],
     [x |-> Dec(70, 1),   y |-> Dec(55, 1)] >>

bookPositionsVertical ==
  << [x |-> Dec(515, 10), y |-> Dec(77, 1)],
     [x |-> Dec(375, 10), y |-> Dec(755, 10)],
     [x |-> Dec(70, 1),   y |-> Dec(57, 1)] >>

bookPositionsTable(horizontal) ==
  IF horizontal THEN bookPositionsHorizontal ELSE bookPositionsVertical

\* viewportHeight * aspectRatio, the displayed (unscaled) image width
unscaledImageWidth(vh) == MulDiv(vh * Scale, aspectRatio, Scale)

\* imageWidth of the vertical branch and of the horizontal branch
imageWidth(horizontal, vh) ==
  IF horizontal
  THEN MulDiv(unscaledImageWidth(vh), scale, Scale)
  ELSE unscaledImageWidth(vh)

imageHeight(horizontal, vh) ==
  IF horizontal THEN vh * scale ELSE vh * Scale

imageOffsetX(cd, vh) == ExactDiv(cd.width * Scale - unscaledImageWidth(vh), 2)

imageOffsetY == 0

\* Math.max(0, (y - 25) / 0.75)
hiddenTopPercent == Dec(25, 1)

visibleFraction == Dec(75, 100)

adjustedY_unmapped(y) == Max(0, y)

adjustedY(y) == Max(0, MulDiv(y - hiddenTopPercent, Scale, visibleFraction))

\* len * pct / 100 for a scaled length and a scaled percentage
PercentOf(len, pct) == MulDiv(len, pct, 100 * Scale)

coverRect_unclamped(book, index, vw, vh, cd) ==
  LET horizontal == viewportAspectRatioGT1(vw, vh)
      bookHeight == vh * coverHeightMultiplier(horizontal)
      bookWidth  == MulDiv(bookHeight, bookAspectRatio, Scale)
      position   == bookPositionsTable(horizontal)[index]
      x == IF horizontal
           THEN imageOffsetX(cd, vh)
                  + PercentOf(unscaledImageWidth(vh), position.x)
                  - ExactDiv(bookWidth, 2)
           ELSE imageOffsetX(cd, vh)
                  + PercentOf(imageWidth(horizontal, vh), position.x)
                  - ExactDiv(bookWidth, 2)
      y == IF horizontal
           THEN imageOffsetY + PercentOf(vh * Scale, adjustedY(position.y))
                  - ExactDiv(bookHeight, 2)
           ELSE imageOffsetY + PercentOf(imageHeight(horizontal, vh), position.y)
                  - ExactDiv(bookHeight, 2)
  IN  [book |-> book, x |-> x, y |-> y,
       width |-> bookWidth, height |-> bookHeight]

coverRect(book, index, vw, vh, cd) ==
  LET horizontal == viewportAspectRatioGT1(vw, vh)
      bookHeight == vh * coverHeightMultiplier(horizontal)
      bookWidth  == MulDiv(bookHeight, bookAspectRatio, Scale)
      position   == bookPositionsTable(horizontal)[index]
      x == IF horizontal
           THEN imageOffsetX(cd, vh)
                  + PercentOf(unscaledImageWidth(vh), position.x)
                  - ExactDiv(bookWidth, 2)
           ELSE imageOffsetX(cd, vh)
                  + PercentOf(imageWidth(horizontal, vh), position.x)
                  - ExactDiv(bookWidth, 2)
      y == IF horizontal
           THEN imageOffsetY + PercentOf(vh * Scale, adjustedY(position.y))
                  - ExactDiv(bookHeight, 2)
           ELSE imageOffsetY + PercentOf(imageHeight(horizontal, vh), position.y)
                  - ExactDiv(bookHeight, 2)
  IN  [book |-> book, x |-> Max(0, x), y |-> Max(0, y),
       width |-> bookWidth, height |-> bookHeight]

\* the early return tests the container's width only
calculateBookPositions_widthOnly(reading, vw, vh, cd) ==
  IF cd.width = 0 \/ Len(reading) = 0
  THEN << >>
  ELSE [index \in 1..Min(Len(reading), Len(bookPositionsTable(TRUE))) |->
          coverRect(reading[index], index, vw, vh, cd)]

calculateBookPositions(reading, vw, vh, cd) ==
  IF cd.width = 0 \/ cd.height = 0 \/ Len(reading) = 0
  THEN << >>
  ELSE [index \in 1..Min(Len(reading), Len(bookPositionsTable(TRUE))) |->
          coverRect(reading[index], index, vw, vh, cd)]

----------------------------------------------------------------------------
(* Spine sizing: calculateSpineDimensions *)

minMultiplier == MDec(12, 1000)

maxMultiplier == MDec(45, 1000)

minPages == 100

maxPages == 700

\* pageCount || 200 : undefined and 0 are both falsy
effectivePages(pageCount) ==
  IF pageCount = Undefined \/ pageCount = 0 THEN 200 ELSE pageCount

widthMultiplier(pages) ==
  IF pages <= minPages THEN minMultiplier
  ELSE IF pages >= maxPages THEN maxMultiplier
  ELSE minMultiplier
         + MulDiv(maxMultiplier - minMultiplier, pages - minPages, maxPages - minPages)

baseHeightMultiplier == MDec(115, 1000)

heightMultiplier_mod50(pages) == baseHeightMultiplier + MDec(pages % 50, 1600)

heightMultiplier(pages) == baseHeightMultiplier + MDec(pages % 40, 1600)

\* viewportHeight * multiplier, as a scaled pixel length
TimesViewport(vh, multiplier) == MulDiv(vh * multiplier, Scale, MScale)

verticalShrink == Dec(7, 10)

calculateSpineDimensions(pageCount, horizontal, vh) ==
  LET pages == effectivePages(pageCount)
      w == TimesViewport(vh, widthMultiplier(pages))
      h == TimesViewport(vh, heightMultiplier(pages))
  IN  IF horizontal
      THEN [spineWidth |-> w, spineHeight |-> h]
      ELSE [spineWidth  |-> MulDiv(w, verticalShrink, Scale),
            spineHeight |-> MulDiv(h, verticalShrink, Scale)]

----------------------------------------------------------------------------
(* Spine placement: calculateBookSpinePositions *)

shelfPositionsHorizontal ==
  << [y |-> Dec(515, 10), startX |-> Dec(40, 1),   endX |-> Dec(85, 1)],
     [y |-> Dec(65, 1),   startX |-> Dec(40, 1),   endX |-> Dec(85, 1)],
     [y |-> Dec(85, 1),   startX |-> Dec(40, 1),   endX |-> Dec(85, 1)] >>

shelfPositionsVertical ==
  << [y |-> Dec(51, 1),   startX |-> Dec(425, 10), endX |-> Dec(85, 1)],
     [y |-> Dec(50, 1),   startX |-> Dec(425, 10), endX |-> Dec(85, 1)],
     [y |-> Dec(65, 1),   startX |-> Dec(425, 10), endX |-> Dec(85, 1)],
     [y |-> Dec(80, 1),   startX |-> Dec(425, 10), endX |-> Dec(85, 1)] >>

shelfPositions(horizontal) ==
  IF horizontal THEN shelfPositionsHorizontal ELSE shelfPositionsVertical

\* the comparator of the sort: dateA - dateB with Infinity for a missing date;
\* Infinity - Infinity is NaN, which Array.prototype.sort reads as 0
sortKeyIsInfinity(book) == book.date_finished = Undefined

sortCompare(a, b) ==
  IF sortKeyIsInfinity(a) /\ sortKeyIsInfinity(b) THEN 0
  ELSE IF sortKeyIsInfinity(a) THEN 1
  ELSE IF sortKeyIsInfinity(b) THEN -1
  ELSE IF a.date_finished < b.date_finished THEN -1
  ELSE IF a.date_finished > b.date_finished THEN 1
  ELSE 0

\* Array.prototype.sort is stable: x goes after every element not greater
RECURSIVE sortInsert(_, _)
sortInsert(sorted, x) ==
  IF sorted = << >> THEN << x >>
  ELSE IF sortCompare(Head(sorted), x) <= 0
       THEN << Head(sorted) >> \o sortInsert(Tail(sorted), x)
       ELSE << x >> \o sorted

RECURSIVE sortFrom(_, _, _)
sortFrom(sorted, books, i) ==
  IF i > Len(books) THEN sorted
  ELSE sortFrom(sortInsert(sorted, books[i]), books, i + 1)

sortedReadBooks(books) == sortFrom(<< >>, books, 1)

\* the 'admin' pseudo-book of the first spine
AdminBook == [id |-> 0, status |-> "admin", pages |-> Undefined,
              date_finished |-> Undefined]

adminWidthMultiplier == MDec(25, 1000)

adminHeightMultiplier == MDec(12, 100)

adminSpineDimensions(horizontal, vh) ==
  LET w == TimesViewport(vh, adminWidthMultiplier)
      h == TimesViewport(vh, adminHeightMultiplier)
  IN  IF horizontal
      THEN [book |-> AdminBook, spineWidth |-> w, spineHeight |-> h]
      ELSE [book |-> AdminBook,
            spineWidth  |-> MulDiv(w, verticalShrink, Scale),
            spineHeight |-> MulDiv(h, verticalShrink, Scale)]

readSpineDimensions(books, horizontal, vh) ==
  LET sorted == sortedReadBooks(books)
  IN  [i \in 1..Len(sorted) |->
         LET d == calculateSpineDimensions(sorted[i].pages, horizontal, vh)
         IN  [book |-> sorted[i], spineWidth |-> d.spineWidth,
              spineHeight |-> d.spineHeight]]

bookSpineDimensions_adminLast(books, admin, horizontal, vh) ==
  IF admin
  THEN Append(readSpineDimensions(books, horizontal, vh),
              adminSpineDimensions(horizontal, vh))
  ELSE readSpineDimensions(books, horizontal, vh)

\* the sorted books' dimensions, with bookSpineDimensions.unshift(admin spine)
bookSpineDimensions(books, admin, horizontal, vh) ==
  IF admin
  THEN << adminSpineDimensions(horizontal, vh) >>
         \o readSpineDimensions(books, horizontal, vh)
  ELSE readSpineDimensions(books, horizontal, vh)

imageReferenceWidth(horizontal, vh) ==
  IF horizontal THEN unscaledImageWidth(vh) ELSE imageWidth(horizontal, vh)

spineWidthPercentage(spineWidth, horizontal, vh) ==
  MulDiv(spineWidth, 100 * Scale, imageReferenceWidth(horizontal, vh))

tinySpacingPixels == 3

tinySpacingPercentage(horizontal, vh) ==
  MulDiv(tinySpacingPixels * Scale, 100 * Scale, imageReferenceWidth(horizontal, vh))

\* the loop variables before the first iteration (currentShelfIndex counts from 0)
packInit(horizontal) ==
  [currentShelfIndex |-> 0,
   currentXPosition |-> shelfPositions(horizontal)[1].startX,
   booksOnCurrentShelf |-> 0,
   positions |-> << >>]

movesToNextShelf_leftEdge(st, widthPct, horizontal) ==
  /\ st.currentXPosition > shelfPositions(horizontal)[st.currentShelfIndex + 1].endX
  /\ st.booksOnCurrentShelf > 0

\* does this iteration move to the next shelf?
movesToNextShelf(st, widthPct, horizontal) ==
  /\ st.currentXPosition + widthPct > shelfPositions(horizontal)[st.currentShelfIndex + 1].endX
  /\ st.booksOnCurrentShelf > 0

spineRect(bookData, shelf, leftX, horizontal, vh, cd) ==
  LET widthPct == spineWidthPercentage(bookData.spineWidth, horizontal, vh)
      spineCenterX == leftX + ExactDiv(widthPct, 2)
      x == IF horizontal
           THEN imageOffsetX(cd, vh)
                  + PercentOf(unscaledImageWidth(vh), spineCenterX)
                  - ExactDiv(bookData.spineWidth, 2)
           ELSE imageOffsetX(cd, vh)
                  + PercentOf(imageWidth(horizontal, vh), spineCenterX)
                  - ExactDiv(bookData.spineWidth, 2)
      y == IF horizontal
           THEN imageOffsetY + PercentOf(vh * Scale, adjustedY(shelf.y))
                  - bookData.spineHeight
           ELSE imageOffsetY + PercentOf(imageHeight(horizontal, vh), shelf.y)
                  - bookData.spineHeight
  IN  [book |-> bookData.book, x |-> Max(0, x), y |-> Max(0, y),
       width |-> bookData.spineWidth, height |-> bookData.spineHeight]

\* the advance of currentXPosition after a spine has been placed
advanceX(widthPct, horizontal, vh) ==
  widthPct + tinySpacingPercentage(horizontal, vh)

\* a spine that wraps past the last band goes back to the first band
packStep_wrapsAround(st, bookData, horizontal, vh, cd) ==
  LET shelves  == shelfPositions(horizontal)
      widthPct == spineWidthPercentage(bookData.spineWidth, horizontal, vh)
      moved == movesToNextShelf(st, widthPct, horizontal)
      idx == IF moved THEN (st.currentShelfIndex + 1) % Len(shelves)
                      ELSE st.currentShelfIndex
      leftX == IF moved THEN shelves[idx + 1].startX ELSE st.currentXPosition
      onShelf == IF moved THEN 0 ELSE st.booksOnCurrentShelf
  IN  [currentShelfIndex |-> idx,
       currentXPosition |-> leftX + advanceX(widthPct, horizontal, vh),
       booksOnCurrentShelf |-> onShelf + 1,
       positions |-> Append(st.positions,
                       spineRect(bookData, shelves[idx + 1], leftX,
                                 horizontal, vh, cd))]

\* one iteration of bookSpineDimensions.forEach
packStep(st, bookData, horizontal, vh, cd) ==
  LET shelves  == shelfPositions(horizontal)
      widthPct == spineWidthPercentage(bookData.spineWidth, horizontal, vh)
  IN  IF st.currentShelfIndex >= Len(shelves) THEN st
      ELSE
        LET moved == movesToNextShelf(st, widthPct, horizontal)
            idx == IF moved THEN st.currentShelfIndex + 1 ELSE st.currentShelfIndex
        IN  IF idx >= Len(shelves)
            THEN [st EXCEPT !.currentShelfIndex = idx]
            ELSE
              LET leftX == IF moved THEN shelves[idx + 1].startX
                                    ELSE st.currentXPosition
                  onShelf == IF moved THEN 0 ELSE st.booksOnCurrentShelf
              IN  [currentShelfIndex |-> idx,
                   currentXPosition |-> leftX + advanceX(widthPct, horizontal, vh),
                   booksOnCurrentShelf |-> onShelf + 1,
                   positions |-> Append(st.positions,
                                   spineRect(bookData, shelves[idx + 1], leftX,
                                             horizontal, vh, cd))]

\* the loop variables after each iteration: [1] before the first,
\* [k + 1] after the k-th
RECURSIVE packRun(_, _, _, _, _)
packRun(states, dims, horizontal, vh, cd) ==
  IF Len(states) > Len(dims) THEN states
  ELSE packRun(Append(states,
                 packStep(states[Len(states)], dims[Len(states)], horizontal, vh, cd)),
               dims, horizontal, vh, cd)

packStates(books, admin, vw, vh, cd) ==
  LET horizontal == viewportAspectRatioGT1(vw, vh)
  IN  packRun(<< packInit(horizontal) >>,
              bookSpineDimensions(books, admin, horizontal, vh), horizontal, vh, cd)

calculateBookSpinePositions(books, admin, vw, vh, cd) ==
  IF cd.width = 0 \/ cd.height = 0 THEN << >>
  ELSE IF ~admin /\ Len(books) = 0 THEN << >>
  ELSE LET states == packStates(books, admin, vw, vh, cd)
       IN  states[Len(states)].positions

----------------------------------------------------------------------------
(* Inputs of the layout: bounded sets *)

MaxReading == 4

MaxRead == 2

\* <<innerWidth, innerHeight>>: two wide windows, a tall one and a square one
Viewports == { <<1600, 900>>, <<1200, 600>>, <<400, 800>>, <<800, 800>> }

\* getBoundingClientRect of the container: not laid out yet, laid out with no
\* height yet, or filling the viewport (the page mounts the display with
\* fullPage, 'fixed inset-0')
ContainerSizes(vp) ==
  { [width |-> 0, height |-> 0],
    [width |-> vp[1], height |-> 0],
    [width |-> vp[1], height |-> vp[2]] }

\* <<pages, date_finished>> of the freely chosen read books
BookKinds ==
  { <<Undefined, Undefined>>, <<0, 1>>, <<50, 3>>, <<200, 1>>, <<730, Undefined>> }

\* lengths of the long shelves: enough to wrap a band, enough to run out of bands
FillCounts == { 20, 45 }

FillPages == << 730, 700, 770, 1000 >>

FillDates == << 2, Undefined, 4 >>

ReadBook(id, pages, date) ==
  [id |-> id, status |-> "read", pages |-> pages, date_finished |-> date]

ReadingBook(id) ==
  [id |-> id, status |-> "currently-reading", pages |-> Undefined,
   date_finished |-> Undefined]

\* a long shelf: page counts and finish dates cycle through FillPages and FillDates
FillBooks(fill) ==
  [j \in 1..fill |-> ReadBook(j, FillPages[(j % Len(FillPages)) + 1],
                              FillDates[(j % Len(FillDates)) + 1])]

ShortReadLists ==
  UNION { { [i \in 1..n |-> ReadBook(i, kind[i][1], kind[i][2])] :
              kind \in [1..n -> BookKinds] } : n \in 0..MaxRead }

ReadLists == ShortReadLists \cup { FillBooks(fill) : fill \in FillCounts }

ReadingLists == { [i \in 1..n |-> ReadingBook(100 + i)] : n \in 0..MaxReading }

\* the collections shown: any number of covers over an empty shelf, or one
\* cover over any shelf
Libraries ==
  { [currently_reading |-> r, read_books |-> << >>] : r \in ReadingLists }
    \cup { [currently_reading |-> << ReadingBook(101) >>, read_books |-> l] :
             l \in ReadLists }

----------------------------------------------------------------------------
(* The data the providers hold *)

\* null in a string-valued cell
Null == "null"

\* userData === null
NoUserData == << >>

\* the page's default username and a second one
DefaultUsername == "johnny-saldana"

Usernames == { DefaultUsername, "reader-two" }

ToReadBook(id) ==
  [id |-> id, status |-> "to-read", pages |-> Undefined, date_finished |-> Undefined]

\* book ids of the two users' collections are disjoint
idBase(username) == IF username = DefaultUsername THEN 0 ELSE 10

\* data.books as the backend may return it for a user
Collections(username) ==
  LET o == idBase(username)
  IN  { << ReadBook(o + 1, 50, 3), ReadingBook(o + 2), ToReadBook(o + 3),
           ReadBook(o + 4, 730, Undefined) >> }

\* a successful response's body: with a book list, or without the field
Bodies(username) ==
  { [hasBooks |-> TRUE, books |-> c] : c \in Collections(username) }
    \cup { [hasBooks |-> FALSE, books |-> << >>] }

\* the filter matches a status that contains the wanted one ('to-read' and
\* 'currently-reading' contain 'read')
filterStatus_includes(data, status) ==
  IF data.hasBooks
  THEN SelectSeq(data.books,
                 LAMBDA book : book.status = status \/ status = "read")
  ELSE << >>

\* data.books?.filter(book => book.status === status) || []
filterStatus(data, status) ==
  IF data.hasBooks
  THEN SelectSeq(data.books, LAMBDA book : book.status = status)
  ELSE << >>

processedData(username, data) ==
  [username |-> username,
   books |-> IF data.hasBooks THEN data.books ELSE << >>,
   currently_reading |-> filterStatus(data, "currently-reading"),
   read_books |-> filterStatus(data, "read")]

\* userData?.currently_reading || []
currentlyReadingOf(ud) == IF ud = NoUserData THEN << >> ELSE ud.currently_reading

\* the read books last shown are kept while no data is loaded
readBooksOf_keepsLast(ud) == IF ud = NoUserData THEN readBooks ELSE ud.read_books

\* userData?.read_books || []
readBooksOf(ud) == IF ud = NoUserData THEN << >> ELSE ud.read_books

\* the ways a load fails, with the message each leaves in error: a response
\* that is not ok (the Error thrown at line 172), a rejection that is not an
\* Error (the fallback message)
LoadFailures ==
  { [kind |-> "notOk", message |-> "Failed to fetch user data"],
    [kind |-> "rejected", message |-> "Failed to load user data"] }

\* the admin key a visitor may hold
AdminKey == "key"

\* adminKey before checkAdminStatus has read the cookie
Unread == "unread"

\* No effect is scheduled.  React runs the effects of a render before it
\* handles a later event, so events are handled in such states only.
effectsDone == ~loadEffectPending /\ adminKey # Unread

----------------------------------------------------------------------------
(* The component: state, render, resize *)

\* lines 467-468: both layouts are recomputed on every render
Render(reading, read, admin, vw, vh, cd) ==
  /\ bookPositions' = calculateBookPositions(reading, vw, vh, cd)
  /\ spinePositions' = calculateBookSpinePositions(read, admin, vw, vh, cd)

\* no response to the login form's request handled yet
NoResponse == [kind |-> "none", is_admin |-> FALSE]

\* login/page.tsx lines 8-10: useState(''), useState(false), useState('')
loginMounted ==
  /\ apiKey = ""
  /\ loginLoading = FALSE
  /\ loginError = ""
  /\ loginRequest = Null
  /\ loginRequests = 0
  /\ loginResponse = NoResponse
  /\ redirected = FALSE

\* page.tsx lines 11 and 15: useState('') and useState(false); handleRefresh
\* not running
refreshIdle ==
  /\ refreshing = FALSE
  /\ pageError = ""
  /\ refreshStage = "idle"
  /\ refreshUser = Null
  /\ refreshMark = 0

\* The display as first rendered with a collection loaded and the admin key
\* checked: useState(1200), useState(600) and useState({ width: 0, height: 0 });
\* the collection and the admin flag come from the two providers
Init ==
  /\ viewportWidth = 1200
  /\ viewportHeight = 600
  /\ containerDimensions = [width |-> 0, height |-> 0]
  /\ imageLoaded = FALSE
  /\ imageEvent = "none"
  /\ timeoutArmed = TRUE
  /\ isAdmin \in BOOLEAN
  /\ \E lib \in Libraries :
       /\ userData = [username |-> DefaultUsername,
                      books |-> lib.currently_reading \o lib.read_books,
                      currently_reading |-> lib.currently_reading,
                      read_books |-> lib.read_books]
  /\ currentlyReading = currentlyReadingOf(userData)
  /\ readBooks = readBooksOf(userData)
  /\ loading = FALSE
  /\ error = Null
  /\ currentUsername = DefaultUsername
  /\ fetches = {}
  /\ fetchLog = << DefaultUsername >>
  /\ clearedLast = FALSE
  /\ selectedUsername = DefaultUsername
  /\ loadEffectPending = FALSE
  /\ showAdminControls = FALSE
  /\ adminCookie = IF isAdmin THEN AdminKey ELSE Null
  /\ adminKey = adminCookie
  /\ validating = FALSE
  /\ validateRequests = IF isAdmin THEN 1 ELSE 0
  /\ bookPositions = calculateBookPositions(currentlyReading, viewportWidth,
                                            viewportHeight, containerDimensions)
  /\ spinePositions = calculateBookSpinePositions(readBooks, isAdmin, viewportWidth,
                                                  viewportHeight, containerDimensions)
  /\ loginMounted
  /\ refreshIdle

\* the window's resize listener, then the render it causes
resizeTo(viewports) ==
  \E vp \in viewports : \E cd \in ContainerSizes(vp) :
    /\ effectsDone
    /\ viewportWidth' = vp[1]
    /\ viewportHeight' = vp[2]
    /\ containerDimensions' = cd
    /\ UNCHANGED <<isAdmin, currentlyReading, readBooks>>
    /\ UNCHANGED <<formVars, imageVars, dataVars, netVars, pageVars, adminVars>>
    /\ Render(currentlyReading, readBooks, isAdmin, vp[1], vp[2], cd)

handleResize == resizeTo(Viewports)

Next == handleResize

Spec == Init /\ [][Next]_vars

----------------------------------------------------------------------------
(* The display's background image *)

\* setImageLoaded(true) and the render it causes when the flag changes: the
\* effects on [imageLoaded] run again, updateDimensions measures the container
\* and the fallback effect clears its timeout and starts a new one
setImageLoaded ==
  /\ imageLoaded' = TRUE
  /\ IF imageLoaded
     THEN UNCHANGED <<containerDimensions, layoutVars>>
     ELSE \E cd \in ContainerSizes(<<viewportWidth, viewportHeight>>) :
            /\ containerDimensions' = cd
            /\ UNCHANGED <<currentlyReading, readBooks>>
            /\ Render(currentlyReading, readBooks, isAdmin,
                      viewportWidth, viewportHeight, cd)
  /\ UNCHANGED <<formVars, viewportWidth, viewportHeight, isAdmin, dataVars, netVars,
                 pageVars, adminVars>>

\* the img element's onLoad
imageOnLoad ==
  /\ imageEvent = "none"
  /\ imageEvent' = "load"
  /\ timeoutArmed' = (timeoutArmed \/ ~imageLoaded)
  /\ setImageLoaded

\* the img element's onError
imageOnError ==
  /\ imageEvent = "none"
  /\ imageEvent' = "error"
  /\ timeoutArmed' = (timeoutArmed \/ ~imageLoaded)
  /\ setImageLoaded

\* the timeout does nothing
imageTimeout_noFallback ==
  /\ timeoutArmed
  /\ timeoutArmed' = FALSE
  /\ UNCHANGED <<formVars, windowVars, imageLoaded, imageEvent, isAdmin, layoutVars,
                 dataVars, netVars, pageVars, adminVars>>

\* the 3-second timeout fires: if (!imageLoaded) setImageLoaded(true)
imageTimeout ==
  /\ timeoutArmed
  /\ timeoutArmed' = ~imageLoaded
  /\ UNCHANGED imageEvent
  /\ setImageLoaded

\* the display showing covers only, the shelf empty
DisplayInit == Init /\ readBooks = << >>

DisplayNext ==
  \/ handleResize
  \/ imageOnLoad
  \/ imageOnError
  \/ imageTimeout

\* the timeout, once started, fires unless it is cleared
DisplaySpec == DisplayInit /\ [][DisplayNext]_vars /\ WF_vars(imageTimeout)

----------------------------------------------------------------------------
(* The application: the display mounted by the page under both providers *)

\* network requests issued in one run of the application
MaxFetches == 3

\* the window sizes the mounted application is resized to
AppViewports == { <<1600, 900>> }

\* handleResize within the application
appResize == resizeTo(AppViewports)

\* the display rendered with the providers' values ud and admin
RenderApp(ud, admin) ==
  /\ currentlyReading' = currentlyReadingOf(ud)
  /\ readBooks' = readBooksOf(ud)
  /\ Render(currentlyReadingOf(ud), readBooksOf(ud), admin,
            viewportWidth, viewportHeight, containerDimensions)

\* loadUserData's two early returns, read from the state of the render that
\* created the function
loadReturnsEarly(username) ==
  \/ username = ""
  \/ (currentUsername = username /\ userData # NoUserData)

\* loadUserData up to its await: setLoading(true), setError(null), apiGet
issueFetch(username) ==
  /\ Len(fetchLog) < MaxFetches
  /\ loading' = TRUE
  /\ error' = Null
  /\ fetches' = fetches \cup { [id |-> Len(fetchLog) + 1, username |-> username] }
  /\ fetchLog' = Append(fetchLog, username)
  /\ clearedLast' = FALSE

\* The display's effect on [username, loadUserData].  The provider makes a new
\* loadUserData on each of its renders, so the effect runs again after every
\* change of the provider's state, and before any later event.
loadEffect ==
  /\ loadEffectPending
  /\ IF loadReturnsEarly(selectedUsername)
     THEN /\ loadEffectPending' = FALSE
          /\ clearedLast' = (clearedLast /\ selectedUsername = "")
          /\ UNCHANGED <<dataVars, fetches, fetchLog>>
     ELSE /\ issueFetch(selectedUsername)
          /\ loadEffectPending' = (~loading \/ error # Null)
          /\ UNCHANGED <<userData, currentUsername>>
  /\ UNCHANGED <<formVars, windowVars, imageVars, isAdmin, layoutVars, selectedUsername, adminVars>>

\* handleShowBookshelf and handleRefresh: the page selects another username
\* ('' while handleRefresh re-mounts the shelf)
setSelectedUsername ==
  /\ effectsDone
  /\ \E username \in Usernames \cup { "" } :
       /\ username # selectedUsername
       /\ selectedUsername' = username
  /\ loadEffectPending' = TRUE
  /\ UNCHANGED <<formVars, windowVars, imageVars, isAdmin, layoutVars, dataVars, netVars, adminVars>>

\* a response to a request for another username than the selected one is
\* dropped
apiGetSucceeds_dropsSuperseded ==
  /\ effectsDone
  /\ \E f \in fetches : \E data \in Bodies(f.username) :
       /\ fetches' = fetches \ { f }
       /\ userData' = IF f.username = selectedUsername
                      THEN processedData(f.username, data) ELSE userData
       /\ currentUsername' = IF f.username = selectedUsername
                             THEN f.username ELSE currentUsername
  /\ loading' = FALSE
  /\ loadEffectPending' = TRUE
  /\ RenderApp(userData', isAdmin)
  /\ UNCHANGED <<formVars, windowVars, imageVars, isAdmin, error, fetchLog, clearedLast, selectedUsername,
                 adminVars>>

\* loadUserData after its await, the response ok: lines 175-187 and finally
apiGetSucceeds ==
  /\ effectsDone
  /\ \E f \in fetches : \E data \in Bodies(f.username) :
       /\ fetches' = fetches \ { f }
       /\ userData' = processedData(f.username, data)
       /\ currentUsername' = f.username
  /\ loading' = FALSE
  /\ loadEffectPending' = TRUE
  /\ RenderApp(userData', isAdmin)
  /\ UNCHANGED <<formVars, windowVars, imageVars, isAdmin, error, fetchLog, clearedLast, selectedUsername,
                 adminVars>>

\* a failed load leaves the cached data as it was
apiGetFails_keepsData ==
  /\ effectsDone
  /\ \E f \in fetches : fetches' = fetches \ { f }
  /\ \E failure \in LoadFailures : error' = failure.message
  /\ loading' = FALSE
  /\ loadEffectPending' = (error' # error \/ loading)
  /\ UNCHANGED <<formVars, windowVars, imageVars, isAdmin, layoutVars, userData, currentUsername, fetchLog,
                 clearedLast, selectedUsername, adminVars>>

\* loadUserData after its await, the response not ok or the request rejected:
\* the catch block and finally
apiGetFails ==
  /\ effectsDone
  /\ \E f \in fetches : fetches' = fetches \ { f }
  /\ \E failure \in LoadFailures : error' = failure.message
  /\ userData' = NoUserData
  /\ loading' = FALSE
  /\ loadEffectPending' = (error' # error \/ userData # NoUserData \/ loading)
  /\ RenderApp(NoUserData, isAdmin)
  /\ UNCHANGED <<formVars, windowVars, imageVars, isAdmin, currentUsername, fetchLog, clearedLast,
                 selectedUsername, adminVars>>

\* refreshUserData: setUserData(null), then loadUserData(currentUsername) of the
\* same render, whose early return still reads the userData of that render
refreshUserData ==
  /\ effectsDone
  /\ currentUsername # Null
  /\ IF loadReturnsEarly(currentUsername)
     THEN /\ userData' = NoUserData
          /\ loadEffectPending' = TRUE
          /\ clearedLast' = FALSE
          /\ UNCHANGED <<loading, error, fetches, fetchLog>>
     ELSE /\ issueFetch(currentUsername)
          /\ userData' = NoUserData
          /\ loadEffectPending' = (~loading \/ error # Null)
  /\ RenderApp(NoUserData, isAdmin)
  /\ UNCHANGED <<formVars, windowVars, imageVars, isAdmin, currentUsername, selectedUsername, adminVars>>

clearData ==
  /\ effectsDone
  /\ userData' = NoUserData
  /\ currentUsername' = Null
  /\ error' = Null
  /\ loadEffectPending' =
       (userData # NoUserData \/ currentUsername # Null \/ error # Null)
  /\ clearedLast' = TRUE
  /\ RenderApp(NoUserData, isAdmin)
  /\ UNCHANGED <<formVars, windowVars, imageVars, isAdmin, loading, fetches, fetchLog, selectedUsername,
                 adminVars>>

\* the validation's outcomes: ok with is_admin true, ok with is_admin false,
\* a response that is not ok, a rejected request
ValidationOutcomes == { "admin", "notAdmin", "notOk", "rejected" }

\* the key is sent for validation without testing that the cookie held one
checkAdminStatus_validatesAbsentKey ==
  /\ adminKey = Unread
  /\ adminKey' = adminCookie
  /\ validating' = TRUE
  /\ validateRequests' = validateRequests + 1
  /\ UNCHANGED <<formVars, windowVars, imageVars, isAdmin, layoutVars, dataVars, netVars, pageVars,
                 showAdminControls, adminCookie>>

\* the provider's mount effect: checkAdminStatus up to its await
checkAdminStatus ==
  /\ adminKey = Unread
  /\ adminKey' = adminCookie
  /\ IF adminCookie = Null
     THEN /\ isAdmin' = FALSE
          /\ showAdminControls' = FALSE
          /\ UNCHANGED <<validating, validateRequests>>
     ELSE /\ validating' = TRUE
          /\ validateRequests' = validateRequests + 1
          /\ UNCHANGED <<isAdmin, showAdminControls>>
  /\ RenderApp(userData, isAdmin')
  /\ UNCHANGED <<formVars, windowVars, imageVars, dataVars, netVars, pageVars, adminCookie>>

\* checkAdminStatus after its await
validateResponse ==
  /\ effectsDone
  /\ validating
  /\ validating' = FALSE
  /\ \E outcome \in ValidationOutcomes :
       /\ isAdmin' = (outcome = "admin")
       /\ showAdminControls' = IF outcome = "admin" THEN showAdminControls ELSE FALSE
       /\ adminCookie' = IF outcome \in { "notAdmin", "notOk" } THEN Null
                         ELSE adminCookie
  /\ RenderApp(userData, isAdmin')
  /\ UNCHANGED <<formVars, windowVars, imageVars, dataVars, netVars, pageVars, adminKey, validateRequests>>

\* the flag is flipped without testing isAdmin
toggleAdminControls_unconditional ==
  /\ effectsDone
  /\ showAdminControls' = ~showAdminControls
  /\ UNCHANGED <<formVars, windowVars, imageVars, isAdmin, layoutVars, dataVars, netVars, pageVars,
                 adminCookie, adminKey, validating, validateRequests>>

\* the click on the admin spine
toggleAdminControls ==
  /\ effectsDone
  /\ showAdminControls' = IF isAdmin THEN ~showAdminControls ELSE showAdminControls
  /\ UNCHANGED <<formVars, windowVars, imageVars, isAdmin, layoutVars, dataVars, netVars, pageVars,
                 adminCookie, adminKey, validating, validateRequests>>

\* logout leaves the admin controls as they are
logout_keepsControls ==
  /\ effectsDone
  /\ adminCookie' = Null
  /\ isAdmin' = FALSE
  /\ RenderApp(userData, FALSE)
  /\ UNCHANGED <<formVars, windowVars, imageVars, dataVars, netVars, pageVars, showAdminControls, adminKey,
                 validating, validateRequests>>

logout ==
  /\ effectsDone
  /\ adminCookie' = Null
  /\ isAdmin' = FALSE
  /\ showAdminControls' = FALSE
  /\ RenderApp(userData, FALSE)
  /\ UNCHANGED <<formVars, windowVars, imageVars, dataVars, netVars, pageVars, adminKey, validating,
                 validateRequests>>

\* the login page stores a key the backend accepted as an admin's
loginStoresKey ==
  /\ effectsDone
  /\ adminCookie' = AdminKey
  /\ UNCHANGED <<formVars, windowVars, imageVars, isAdmin, layoutVars, dataVars, netVars, pageVars,
                 showAdminControls, adminKey, validating, validateRequests>>

\* the first render: both providers empty, the display mounted with the page's
\* default username, its load effect and the admin check still to run
AppInit ==
  /\ viewportWidth = 1200
  /\ viewportHeight = 600
  /\ containerDimensions = [width |-> 0, height |-> 0]
  /\ imageLoaded = FALSE
  /\ imageEvent = "none"
  /\ timeoutArmed = TRUE
  /\ isAdmin = FALSE
  /\ showAdminControls = FALSE
  /\ adminCookie \in { Null, AdminKey }
  /\ adminKey = Unread
  /\ validating = FALSE
  /\ validateRequests = 0
  /\ userData = NoUserData
  /\ loading = FALSE
  /\ error = Null
  /\ currentUsername = Null
  /\ fetches = {}
  /\ fetchLog = << >>
  /\ clearedLast = FALSE
  /\ selectedUsername = DefaultUsername
  /\ loadEffectPending = TRUE
  /\ currentlyReading = << >>
  /\ readBooks = << >>
  /\ bookPositions = << >>
  /\ spinePositions = << >>
  /\ loginMounted
  /\ refreshIdle

AppNext ==
  \/ appResize
  \/ loadEffect
  \/ setSelectedUsername
  \/ apiGetSucceeds
  \/ apiGetFails
  \/ refreshUserData
  \/ clearData
  \/ checkAdminStatus
  \/ validateResponse
  \/ toggleAdminControls
  \/ logout
  \/ loginStoresKey

AppSpec == AppInit /\ [][AppNext]_vars

----------------------------------------------------------------------------
(* The login page *)

\* validation requests the login form sends in one run
MaxSubmits == 3

\* what the visitor types into the form: nothing, a blank, the admin's key,
\* another key
LoginKeys == { "", " ", AdminKey, "guest" }

\* apiKey.trim() on the keys typed
trim(key) == IF key = " " THEN "" ELSE key

\* The answers to the validation request: the fetch resolved with an ok or a
\* non-ok status and a body whose is_admin is true or not, or it was rejected.
LoginResponses ==
  { [kind |-> k, is_admin |-> a] : k \in { "ok", "notOk" }, a \in BOOLEAN }
    \cup { [kind |-> "rejected", is_admin |-> FALSE] }

\* the body's is_admin is read whatever the status
keyAccepted_ignoresStatus(response) == response.is_admin

\* lines 30-36: the response is ok and its body says is_admin
keyAccepted(response) == response.kind = "ok" /\ response.is_admin

\* the input's onChange; the input is disabled while loading
setApiKey ==
  /\ ~loginLoading
  /\ ~redirected
  /\ \E key \in LoginKeys :
       /\ key # apiKey
       /\ apiKey' = key
  /\ UNCHANGED <<loginLoading, loginError, loginRequest, loginRequests, loginResponse,
                 redirected>>
  /\ UNCHANGED <<windowVars, imageVars, isAdmin, layoutVars, dataVars, netVars, pageVars,
                 adminVars, refreshVars>>

\* handleSubmit up to its await; the submit button is disabled while loading
handleSubmit ==
  /\ ~loginLoading
  /\ ~redirected
  /\ IF trim(apiKey) = ""
     THEN /\ loginError' = "Please enter an API key"
          /\ UNCHANGED <<loginLoading, loginRequest, loginRequests>>
     ELSE /\ loginRequests < MaxSubmits
          /\ loginLoading' = TRUE
          /\ loginError' = ""
          /\ loginRequest' = apiKey
          /\ loginRequests' = loginRequests + 1
  /\ UNCHANGED <<apiKey, loginResponse, redirected>>
  /\ UNCHANGED <<windowVars, imageVars, isAdmin, layoutVars, dataVars, netVars, pageVars,
                 adminVars, refreshVars>>

\* handleSubmit after its await: lines 30-44, the catch block and finally
validateKeyResponse ==
  /\ loginRequest # Null
  /\ \E response \in LoginResponses :
       /\ loginResponse' = response
       /\ IF keyAccepted(response)
          THEN /\ adminCookie' = loginRequest
               /\ redirected' = TRUE
               /\ UNCHANGED loginError
          ELSE /\ loginError' = IF response.kind = "ok"
                                THEN "This key does not have admin privileges"
                                ELSE "Invalid API key"
               /\ UNCHANGED <<adminCookie, redirected>>
  /\ loginRequest' = Null
  /\ loginLoading' = FALSE
  /\ UNCHANGED <<apiKey, loginRequests>>
  /\ UNCHANGED <<windowVars, imageVars, isAdmin, layoutVars, dataVars, netVars, pageVars,
                 showAdminControls, adminKey, validating, validateRequests, refreshVars>>

\* the login page opened by a visitor who holds no cookie
LoginInit == AppInit /\ adminCookie = Null

LoginNext ==
  \/ setApiKey
  \/ handleSubmit
  \/ validateKeyResponse

LoginSpec == LoginInit /\ [][LoginNext]_vars

----------------------------------------------------------------------------
(* The page's refresh button *)

\* the answers to handleRefresh's request for the user: ok with a profile_url,
\* ok without one, not ok, the request rejected
UserLookups ==
  { [kind |-> "found", message |-> ""],
    [kind |-> "noProfile", message |-> "No profile URL found for user"],
    [kind |-> "notOk", message |-> "User not found"],
    [kind |-> "rejected", message |-> "Failed to refresh profile data"] }

\* the answers to the re-scrape: a body whose success is true or not, or the
\* request rejected (axios rejects on a status outside 2xx)
ScrapeOutcomes ==
  { [kind |-> "success", message |-> ""],
    [kind |-> "unsuccessful", message |-> ""],
    [kind |-> "rejected", message |-> "Failed to refresh profile data"] }

\* handleRefresh up to its first await; the button is disabled while
\* refreshing
handleRefresh ==
  /\ effectsDone
  /\ ~refreshing
  /\ refreshStage \in { "idle", "remounted" }
  /\ refreshing' = TRUE
  /\ pageError' = ""
  /\ refreshStage' = "user"
  /\ refreshUser' = selectedUsername
  /\ UNCHANGED refreshMark
  /\ UNCHANGED <<windowVars, imageVars, isAdmin, layoutVars, dataVars, netVars, pageVars,
                 adminVars, loginVars>>

\* handleRefresh after the user request: lines 63-71, then either the
\* re-scrape is posted or the catch block and finally run
userResponse ==
  /\ effectsDone
  /\ refreshStage = "user"
  /\ \E lookup \in UserLookups :
       IF lookup.kind = "found"
       THEN /\ refreshStage' = "scrape"
            /\ UNCHANGED <<refreshing, pageError>>
       ELSE /\ refreshStage' = "idle"
            /\ pageError' = lookup.message
            /\ refreshing' = FALSE
  /\ UNCHANGED <<refreshUser, refreshMark>>
  /\ UNCHANGED <<windowVars, imageVars, isAdmin, layoutVars, dataVars, netVars, pageVars,
                 adminVars, loginVars>>

\* handleRefresh after the re-scrape: lines 79-83, the catch block, finally
scrapeResponse ==
  /\ effectsDone
  /\ refreshStage = "scrape"
  /\ \E outcome \in ScrapeOutcomes :
       IF outcome.kind = "success"
       THEN /\ refreshStage' = "timer"
            /\ selectedUsername' = ""
            /\ loadEffectPending' = (selectedUsername # "")
            /\ refreshMark' = Len(fetchLog)
            /\ UNCHANGED pageError
       ELSE /\ refreshStage' = "idle"
            /\ pageError' = outcome.message
            /\ UNCHANGED <<selectedUsername, loadEffectPending, refreshMark>>
  /\ refreshing' = FALSE
  /\ UNCHANGED refreshUser
  /\ UNCHANGED <<windowVars, imageVars, isAdmin, layoutVars, dataVars, netVars, adminVars,
                 loginVars>>

\* line 82, the 100 ms timer: setSelectedUsername('johnny-saldana')
refreshTimeout ==
  /\ effectsDone
  /\ refreshStage = "timer"
  /\ refreshStage' = "remounted"
  /\ selectedUsername' = DefaultUsername
  /\ loadEffectPending' = (selectedUsername # DefaultUsername)
  /\ UNCHANGED <<refreshing, pageError, refreshUser, refreshMark>>
  /\ UNCHANGED <<windowVars, imageVars, isAdmin, layoutVars, dataVars, netVars, adminVars,
                 loginVars>>

\* the page opened by a visitor who holds no cookie
RefreshInit == AppInit /\ adminCookie = Null

RefreshNext ==
  \/ loadEffect
  \/ checkAdminStatus
  \/ setSelectedUsername
  \/ apiGetSucceeds
  \/ apiGetFails
  \/ handleRefresh
  \/ userResponse
  \/ scrapeResponse
  \/ refreshTimeout

RefreshSpec == RefreshInit /\ [][RefreshNext]_vars

----------------------------------------------------------------------------
(* Properties of the cover layout *)

containerMeasured ==
  containerDimensions.width # 0 /\ containerDimensions.height # 0

\* C1: with the container measured, calculateBookPositions returns exactly
\* min(n, 3) rectangles for n currently-reading books, the i-th for the i-th
\* book, each with width > 0, height > 0, x >= 0 and y >= 0; books beyond the
\* third are dropped.
C1_CoverRectangles ==
  containerMeasured =>
    /\ Len(bookPositions) = Min(Len(currentlyReading), 3)
    /\ \A i \in 1..Len(bookPositions) :
         /\ bookPositions[i].book = currentlyReading[i]
         /\ bookPositions[i].width > 0
         /\ bookPositions[i].height > 0
         /\ bookPositions[i].x >= 0
         /\ bookPositions[i].y >= 0

\* a fourth book is dropped, and a cover left of the container is clamped to 0
C1_Witness ==
  /\ containerMeasured
  /\ Len(currentlyReading) = 4
  /\ Len(bookPositions) = 3
  /\ \E i \in 1..3 : bookPositions[i].x = 0

\* C7: the mode is horizontal exactly when viewportWidth / viewportHeight > 1
\* (a square viewport is vertical); every cover is 0.27 x viewportHeight high
\* in horizontal mode, 0.20 x viewportHeight in vertical mode, and 0.65 x its
\* height wide.
C7_CoverSizeByMode ==
  \A i \in 1..Len(bookPositions) :
    /\ bookPositions[i].height =
         IF viewportWidth > viewportHeight
         THEN (viewportHeight * 27) * (Scale \div 100)
         ELSE (viewportHeight * 20) * (Scale \div 100)
    /\ bookPositions[i].height % 100 = 0
    /\ bookPositions[i].width = (bookPositions[i].height \div 100) * 65

\* covers placed in a square viewport
C7_Witness ==
  /\ viewportWidth = viewportHeight
  /\ Len(bookPositions) = 3
  /\ bookPositions[1].height = (viewportHeight * 20) * (Scale \div 100)

\* viewportHeight * y / 100 for y in tenths of a percent, as a scaled pixel length
PlainPx(vh, y10) == MulDiv(vh * Scale, y10, 1000)

\* viewportHeight * ((y - 25) / 0.75) / 100, likewise
RemapPx(vh, y10) == MulDiv(vh * Scale, (y10 - 250) * 4, 3000)

\* C8: in horizontal mode every anchor or shelf Y-percentage y becomes
\* max(0, (y - 25) / 0.75) before it is converted to pixels (viewportHeight x
\* adjusted / 100, minus half the cover height for covers, clamped at 0); in
\* vertical mode y is used as it is.  A 1600 x 900 viewport with three
\* currently-reading books gives three covers 243 px high and 157.95 px wide,
\* the 77% anchor landing at 69.33% of 900 px = 624 px.
C8_RemappedY ==
  LET horizontal == viewportWidth > viewportHeight
      anchorY == IF horizontal THEN << 770, 760, 550 >> ELSE << 770, 755, 570 >>
      shelfY  == IF horizontal THEN { 515, 650, 850 } ELSE { 510, 500, 650, 800 }
      Px(y10) == IF horizontal THEN RemapPx(viewportHeight, y10)
                               ELSE PlainPx(viewportHeight, y10)
  IN  /\ \A i \in 1..Len(bookPositions) :
           /\ bookPositions[i].height % 2 = 0
           /\ bookPositions[i].y =
                Max(0, Px(anchorY[i]) - (bookPositions[i].height \div 2))
      /\ \A i \in 1..Len(spinePositions) :
           \E y10 \in shelfY :
             spinePositions[i].y = Max(0, Px(y10) - spinePositions[i].height)
      /\ (/\ viewportWidth = 1600
          /\ viewportHeight = 900
          /\ containerMeasured
          /\ Len(currentlyReading) >= 3)
           => /\ Len(bookPositions) = 3
              /\ \A i \in 1..3 :
                   /\ bookPositions[i].height = 243 * Scale
                   /\ bookPositions[i].width = 15795 * (Scale \div 100)
              /\ RemapPx(900, 770) = 624 * Scale
              /\ bookPositions[1].y = 5025 * (Scale \div 10)

\* the 1600 x 900 scenario, with spines on the shelves as well
C8_Witness ==
  /\ viewportWidth = 1600
  /\ viewportHeight = 900
  /\ Len(bookPositions) = 3
  /\ bookPositions[3].y > 0

C8_WitnessSpines ==
  /\ viewportWidth > viewportHeight
  /\ Len(bookPositions) > 0
  /\ Len(spinePositions) > 1

----------------------------------------------------------------------------
(* Properties of the spine layout *)

isReadSpine(rect) == rect.book # AdminBook

\* the rectangles of the read books, in the order returned
readSpines == SelectSeq(spinePositions, isReadSpine)

\* C9: the spine height multiplier is 0.115 + (pages mod 40) / 1600: it
\* depends on the page count only through pages mod 40, whatever the width;
\* an absent page count counts as 200 for the width and for the height.
C9_SpineHeight ==
  LET horizontal == viewportWidth > viewportHeight
      Shrunk(v) == IF horizontal THEN v ELSE (v \div 10) * 7
      pagesOf(rect) == IF rect.book.pages = Undefined THEN 200 ELSE rect.book.pages
  IN  /\ \A i \in 1..Len(readSpines) :
           /\ readSpines[i].height =
                Shrunk(viewportHeight * (184 + (pagesOf(readSpines[i]) % 40))
                         * (Scale \div 1600))
           /\ readSpines[i].book.pages = Undefined =>
                readSpines[i].width = Shrunk(viewportHeight * 175 * (Scale \div 10000))
      /\ \A i, j \in 1..Len(readSpines) :
           pagesOf(readSpines[i]) % 40 = pagesOf(readSpines[j]) % 40
             => readSpines[i].height = readSpines[j].height

\* two page counts congruent mod 40 with different widths, and an absent one
C9_Witness ==
  /\ \E i, j \in 1..Len(readSpines) :
       /\ readSpines[i].book.pages = 50
       /\ readSpines[j].book.pages = 730
       /\ readSpines[i].width < readSpines[j].width
       /\ readSpines[i].height = readSpines[j].height

C9_WitnessAbsent ==
  \E i, j \in 1..Len(readSpines) :
    /\ readSpines[i].book.pages = Undefined
    /\ readSpines[j].book.pages = 200
    /\ readSpines[i].width = readSpines[j].width
    /\ readSpines[i].height = readSpines[j].height

\* C10: with the admin flag active and the container measured, the first
\* rectangle is the admin pseudo-spine, its left edge at startX of the first
\* band and standing on that band, 0.025 x 0.12 of viewportHeight (times 0.7
\* in vertical mode) whatever the books are; with no read books it is the
\* only rectangle.
C10_AdminSpineFirst ==
  (isAdmin /\ containerMeasured) =>
    LET horizontal == viewportWidth > viewportHeight
        Shrunk(v) == IF horizontal THEN v ELSE (v \div 10) * 7
        \* imageOffsetX + 1.5 x viewportHeight x startX / 100
        startPx == (containerDimensions.width * Scale) \div 2
                     - (IF horizontal
                        THEN viewportHeight * 15 * (Scale \div 100)
                        ELSE viewportHeight * 1125 * (Scale \div 10000))
        shelfPx == IF horizontal THEN RemapPx(viewportHeight, 515)
                                 ELSE PlainPx(viewportHeight, 510)
    IN  /\ Len(spinePositions) >= 1
        /\ spinePositions[1].book = AdminBook
        /\ spinePositions[1].width = Shrunk(viewportHeight * 25 * (Scale \div 1000))
        /\ spinePositions[1].height = Shrunk(viewportHeight * 12 * (Scale \div 100))
        /\ spinePositions[1].x = Max(0, startPx)
        /\ spinePositions[1].y = shelfPx - spinePositions[1].height
        /\ \A i \in 2..Len(spinePositions) : spinePositions[i].book # AdminBook
        /\ Len(readBooks) = 0 => Len(spinePositions) = 1

\* the admin spine alone on the shelf
C10_Witness ==
  /\ isAdmin
  /\ containerMeasured
  /\ Len(readBooks) = 0
  /\ Len(spinePositions) = 1
  /\ spinePositions[1].x > 0

C10_WitnessWithBooks ==
  /\ isAdmin
  /\ Len(spinePositions) > 20
  /\ spinePositions[1].book = AdminBook

----------------------------------------------------------------------------
(* Properties of the packing loop *)

\* the loop runs only past the two early returns
loopRuns == containerMeasured /\ (isAdmin \/ Len(readBooks) > 0)

currentShelves ==
  IF viewportWidth > viewportHeight THEN shelfPositionsHorizontal
                                    ELSE shelfPositionsVertical

\* the spines in loop order, and the loop variables around each iteration
currentDims ==
  bookSpineDimensions(readBooks, isAdmin, viewportWidth > viewportHeight,
                      viewportHeight)

currentStates ==
  packStates(readBooks, isAdmin, viewportWidth, viewportHeight, containerDimensions)

\* a pixel length as a percentage of the reference width 1.5 x viewportHeight
PxToPercent(px) == MulDiv(px, 200, 3 * viewportHeight)

\* C3: a spine is moved to the next band if and only if its projected right
\* edge (current X position plus its width, in image-percent) exceeds the
\* current band's endX and at least one spine is already on the current band;
\* the first spine on an empty band is always placed on that band.
C3_WrapRule ==
  loopRuns =>
    LET dims == currentDims
        states == currentStates
    IN
    \A k \in 1..Len(dims) :
      LET before == states[k]
          after  == states[k + 1]
          band   == before.currentShelfIndex
          rightEdge == before.currentXPosition
                         + PxToPercent(dims[k].spineWidth)
      IN  band < Len(currentShelves) =>
            /\ after.currentShelfIndex \in { band, band + 1 }
            /\ after.currentShelfIndex = band + 1
                 <=> (/\ rightEdge > currentShelves[band + 1].endX
                      /\ before.booksOnCurrentShelf > 0)
            /\ before.booksOnCurrentShelf = 0 =>
                 /\ after.currentShelfIndex = band
                 /\ after.booksOnCurrentShelf = 1
                 /\ Len(after.positions) = Len(before.positions) + 1

\* a spine that did not fit was moved to the next band and placed there
C3_Witness ==
  /\ loopRuns
  /\ LET states == currentStates
     IN  \E k \in 1..(Len(states) - 1) :
           /\ states[k].currentShelfIndex = 0
           /\ states[k].booksOnCurrentShelf > 5
           /\ states[k + 1].currentShelfIndex = 1
           /\ states[k + 1].booksOnCurrentShelf = 1
           /\ Len(states[k + 1].positions) = k

\* C4: after a spine is placed, the inter-spine spacing is added to the
\* running X position only when the following spine would still fit within
\* the current band after the spacing is added; otherwise the running X
\* position advances by the spine width alone.
C4_SpacingOnlyWhenNextFits ==
  loopRuns =>
    LET dims == currentDims
        states == currentStates
    IN
    \A k \in 1..(Len(dims) - 1) :
      LET before == states[k]
          after  == states[k + 1]
          placed == Len(after.positions) = Len(before.positions) + 1
          width  == PxToPercent(dims[k].spineWidth)
          next   == PxToPercent(dims[k + 1].spineWidth)
          spacing == PxToPercent(3 * Scale)
          leftX  == IF after.currentShelfIndex = before.currentShelfIndex
                    THEN before.currentXPosition
                    ELSE currentShelves[after.currentShelfIndex + 1].startX
          nextFits == leftX + width + spacing + next
                        <= currentShelves[after.currentShelfIndex + 1].endX
      IN  placed =>
            after.currentXPosition =
              leftX + width + (IF nextFits THEN spacing ELSE 0)

\* C2: read-book spines appear in ascending finish-date order, undated books
\* strictly after dated ones, read left-to-right within a band and
\* top-band-to-bottom-band across bands: the next spine stands on the same
\* shelf line further right, or on a shelf line lower on screen.
C2_ShelfReadingOrder ==
  LET dated(rect) == rect.book.date_finished # Undefined
      shelfLine(rect) == rect.y + rect.height
  IN  /\ \A i, j \in 1..Len(readSpines) :
           i < j =>
             /\ dated(readSpines[j]) => dated(readSpines[i])
             /\ (dated(readSpines[i]) /\ dated(readSpines[j])) =>
                  readSpines[i].book.date_finished <= readSpines[j].book.date_finished
      /\ \A i \in 1..(Len(readSpines) - 1) :
           \/ /\ shelfLine(readSpines[i]) = shelfLine(readSpines[i + 1])
              /\ readSpines[i].x <= readSpines[i + 1].x
           \/ shelfLine(readSpines[i]) < shelfLine(readSpines[i + 1])

overlap(a, b) ==
  /\ a.x < b.x + b.width
  /\ b.x < a.x + a.width
  /\ a.y < b.y + b.height
  /\ b.y < a.y + a.height

\* C5: no two rectangles of one layout computation overlap in area: any two
\* covers are disjoint and any two spines are disjoint.
C5_NoOverlap ==
  /\ \A i, j \in 1..Len(bookPositions) :
       i < j => ~overlap(bookPositions[i], bookPositions[j])
  /\ \A i, j \in 1..Len(spinePositions) :
       i < j => ~overlap(spinePositions[i], spinePositions[j])

\* C6: the spine width multiplier is non-decreasing in the page count,
\* p = 0 included, and lies in [0.012, 0.045]; the spine width is the
\* multiplier times viewportHeight (times the 0.7 of vertical mode).
C6_WidthMonotone ==
  LET horizontal == viewportWidth > viewportHeight
      Shrunk(v) == IF horizontal THEN v ELSE (v \div 10) * 7
      counted(rect) == rect.book.pages # Undefined
  IN  /\ \A i \in 1..Len(readSpines) :
           /\ readSpines[i].width >= Shrunk(viewportHeight * 12 * (Scale \div 1000))
           /\ readSpines[i].width <= Shrunk(viewportHeight * 45 * (Scale \div 1000))
      /\ \A i, j \in 1..Len(readSpines) :
           (/\ counted(readSpines[i])
            /\ counted(readSpines[j])
            /\ readSpines[i].book.pages <= readSpines[j].book.pages)
             => readSpines[i].width <= readSpines[j].width

----------------------------------------------------------------------------
(* Degenerate inputs *)

\* C11: while the container's width or height is zero, both layouts are
\* empty, whatever the books, the viewport and the admin flag; and with the
\* admin flag off and no read book the spine layout is empty.
C11_EmptyWhenUnmeasured ==
  /\ (containerDimensions.width = 0 \/ containerDimensions.height = 0)
       => (bookPositions = << >> /\ spinePositions = << >>)
  /\ (~isAdmin /\ Len(readBooks) = 0) => spinePositions = << >>

\* the window was resized to 1600x900 while the container had a width and no
\* height, with a cover and read books to show and the admin flag on
C11_Witness ==
  /\ viewportWidth = 1600
  /\ containerDimensions = [width |-> 1600, height |-> 0]
  /\ isAdmin
  /\ Len(currentlyReading) > 0
  /\ Len(readBooks) > 0
  /\ bookPositions = << >>
  /\ spinePositions = << >>

----------------------------------------------------------------------------
(* The application's state *)

AppTypeOK ==
  /\ loading \in BOOLEAN
  /\ error \in { Null } \cup { failure.message : failure \in LoadFailures }
  /\ currentUsername \in Usernames \cup { Null }
  /\ selectedUsername \in Usernames \cup { "" }
  /\ Len(fetchLog) <= MaxFetches
  /\ \A f \in fetches : f.id \in 1..Len(fetchLog) /\ fetchLog[f.id] = f.username
  /\ validateRequests \in 0..1
  /\ adminCookie \in { Null, AdminKey }

----------------------------------------------------------------------------
(* The rectangles and the loaded collection *)

Range(seq) == { seq[i] : i \in 1..Len(seq) }

\* the books of the rectangles of both layouts
rectangleBooks ==
  { rect.book : rect \in Range(bookPositions) \cup Range(spinePositions) }

loadedBooks == IF userData = NoUserData THEN {} ELSE Range(userData.books)

\* C12 as stated: in every state of the application the book of every
\* rectangle belongs to the loaded user's collection, userData.books.
C12_RectanglesOfLoadedUser == rectangleBooks \subseteq loadedBooks

\* C12, amended: in every state of the application the book of every
\* rectangle other than the admin pseudo-spine belongs to the loaded user's
\* collection, userData.books.
C12_RectanglesOfLoadedUserOrAdmin ==
  rectangleBooks \subseteq (loadedBooks \cup { AdminBook })

\* the second user's collection replaced the first user's and is laid out:
\* one cover and two spines
C12_Witness ==
  /\ Len(fetchLog) >= 2
  /\ fetchLog[1] = DefaultUsername
  /\ userData # NoUserData
  /\ userData.username = "reader-two"
  /\ Len(bookPositions) = 1
  /\ Len(spinePositions) >= 2
  /\ ~isAdmin

----------------------------------------------------------------------------
(* Loading a collection *)

\* loadUserData(username) was called once, from an empty cache, and nothing
\* else has happened to the provider since, except that the response may have
\* arrived and been cached
loadedOnce(username) ==
  /\ fetchLog = << username >>
  /\ error = Null
  /\ \/ fetches # {} /\ userData = NoUserData /\ currentUsername = Null
     \/ fetches = {} /\ userData # NoUserData /\ currentUsername = username

\* C13: load(username) called a second time with the same username, the
\* first call made from an empty cache, issues no network request, whether
\* the first call's response has arrived or not: one fetch per username.
C13_SecondLoadFetchesNothing ==
  [][ (loadEffect /\ loadedOnce(selectedUsername)) => fetchLog' = fetchLog ]_vars

\* a request for another username than the selected one awaits its response
overlapping ==
  /\ selectedUsername # ""
  /\ \E f \in fetches : f.username # selectedUsername

\* C14: a load called while a request for another username is in flight
\* issues its own request, and every successful response replaces the cache
\* with its own user's data, the response to a superseded request included:
\* the response that resolves last wins.
C14_LastResponseWins ==
  [][ /\ (loadEffect /\ overlapping /\ ~loadReturnsEarly(selectedUsername))
          => fetchLog' = Append(fetchLog, selectedUsername)
      /\ \A f \in fetches :
           (apiGetSucceeds /\ fetches' = fetches \ { f })
             => /\ userData' # NoUserData
                /\ userData'.username = f.username
                /\ currentUsername' = f.username ]_vars

\* 'reader-two' was selected while the requests for 'johnny-saldana' were in
\* flight; its response has resolved, and the cache holds the data of the
\* first request for 'johnny-saldana', which resolved after it
C14_Witness ==
  /\ fetchLog = << DefaultUsername, DefaultUsername, "reader-two" >>
  /\ fetches = { [id |-> 2, username |-> DefaultUsername] }
  /\ selectedUsername = "reader-two"
  /\ userData # NoUserData
  /\ userData.username = DefaultUsername
  /\ currentUsername = DefaultUsername

\* C16: when a load fails (response not ok, or request rejected) userData
\* becomes null, error a non-empty message and loading false, and the
\* display's derived lists read as empty.
C16_FailureClearsCache ==
  [][ apiGetFails
        => /\ userData' = NoUserData
           /\ error' \notin { Null, "" }
           /\ loading' = FALSE
           /\ currentlyReading' = << >>
           /\ readBooks' = << >>
           /\ bookPositions' = << >> ]_vars

\* a load of 'johnny-saldana' succeeded and a later one failed with a status
\* that is not ok
C16_Witness ==
  /\ currentUsername = DefaultUsername
  /\ userData = NoUserData
  /\ error = "Failed to fetch user data"
  /\ loading = FALSE
  /\ readBooks = << >>

\* the place of a book in a list of books with distinct ids
position(list, book) == CHOOSE k \in 1..Len(list) : list[k] = book

\* view is exactly the sub-list of list with the given status, in list's order
isSubListWithStatus(view, list, status) ==
  /\ \A i \in 1..Len(view) : view[i].status = status /\ view[i] \in Range(list)
  /\ Len(view) = Cardinality({ k \in 1..Len(list) : list[k].status = status })
  /\ \A i, j \in 1..Len(view) :
       i < j => position(list, view[i]) < position(list, view[j])

\* C17: when a load succeeds the cache is replaced by the response: books is
\* the response's book list (empty when the response has none),
\* currently_reading and read_books are exactly its sub-lists of status
\* currently-reading and read, in order, and the cached username is the
\* requested one.
C17_SuccessReplacesCache ==
  [][ \A f \in fetches :
        (apiGetSucceeds /\ fetches' = fetches \ { f })
          => /\ userData' # NoUserData
             /\ userData'.username = f.username
             /\ currentUsername' = f.username
             /\ \E data \in Bodies(f.username) :
                  userData'.books = IF data.hasBooks THEN data.books ELSE << >>
             /\ isSubListWithStatus(userData'.currently_reading, userData'.books,
                                    "currently-reading")
             /\ isSubListWithStatus(userData'.read_books, userData'.books, "read")
             /\ currentlyReading' = userData'.currently_reading
             /\ readBooks' = userData'.read_books ]_vars

\* the collection of 'reader-two' is cached: four books, one being read and
\* two read
C17_Witness ==
  /\ currentUsername = "reader-two"
  /\ userData # NoUserData
  /\ userData.username = "reader-two"
  /\ Len(userData.books) = 4
  /\ Len(userData.currently_reading) = 1
  /\ Len(userData.read_books) = 2
  /\ userData.read_books[1].id < userData.read_books[2].id

----------------------------------------------------------------------------
(* Refreshing and clearing *)

\* C15: refresh(), called while a username and its data are cached, clears
\* the data and causes a request for the cached username: the call issues it,
\* or the load effect the call schedules is about to issue it.
C15_RefreshReloads ==
  [][ (refreshUserData /\ userData # NoUserData)
        => /\ userData' = NoUserData
           /\ \/ fetchLog' = Append(fetchLog, currentUsername)
              \/ (loadEffectPending' /\ selectedUsername = currentUsername) ]_vars

\* C18: after clear() the provider is empty (userData, currentUsername and
\* error all null) and stays so until loadUserData is next called; a response
\* to a request issued before clear() does not fill it again.
C18_ClearedUntilNextLoad ==
  clearedLast => (userData = NoUserData /\ currentUsername = Null /\ error = Null)

----------------------------------------------------------------------------
(* The admin key *)

\* C19: when the validation of the stored key does not end with the
\* capability granted (is_admin false, a status that is not ok, or the
\* request rejected), the cookie is cleared and isAdmin is false.
C19_FailedValidationClearsCookie ==
  [][ (validateResponse /\ ~isAdmin')
        => (adminCookie' = Null /\ isAdmin' = FALSE) ]_vars

\* the admin pseudo-spine is in the spine layout
adminSpineShown == AdminBook \in { rect.book : rect \in Range(spinePositions) }

\* C20: when checkAdminStatus found no admin_key cookie, isAdmin is false, no
\* validation request is sent and the admin pseudo-spine is in no spine
\* layout, whatever read books are shown.
C20_NoCookieNoAdmin ==
  adminKey = Null
    => /\ ~isAdmin
       /\ ~validating
       /\ validateRequests = 0
       /\ ~adminSpineShown

\* no cookie was found at the start, a key was stored by the login page
\* later, and the two read books of the loaded user stand on the shelf alone
C20_Witness ==
  /\ adminKey = Null
  /\ adminCookie = AdminKey
  /\ containerDimensions.width > 0 /\ containerDimensions.height > 0
  /\ Len(readBooks) = 2
  /\ Len(spinePositions) = 2

\* C21: logout clears the cookie and sets isAdmin and showAdminControls to
\* false, and while no new key is stored isAdmin and showAdminControls stay
\* false.
C21_LogoutStaysLoggedOut ==
  /\ [][ logout => (adminCookie' = Null /\ ~isAdmin' /\ ~showAdminControls') ]_vars
  /\ [][ (adminKey # Unread /\ adminCookie = Null /\ ~isAdmin /\ adminCookie' = Null)
           => (~isAdmin' /\ ~showAdminControls') ]_vars

\* C22: toggleAdminControls flips showAdminControls when isAdmin is true and
\* changes nothing when it is false; the rest of the admin state is left alone.
C22_ToggleOnlyForAdmin ==
  [][ toggleAdminControls
        => /\ showAdminControls' = IF isAdmin THEN ~showAdminControls
                                   ELSE showAdminControls
           /\ UNCHANGED <<isAdmin, adminCookie, adminKey, validating,
                          validateRequests>> ]_vars

\* the admin spine is on the shelf and its click has toggled the controls on
C22_Witness ==
  /\ isAdmin
  /\ showAdminControls
  /\ adminSpineShown

\* C26: in every state of the admin provider showAdminControls is true only
\* if isAdmin is true.
C26_ControlsOnlyForAdmin == showAdminControls => isAdmin

\* the key was validated and the controls toggled on
C26_Witness == showAdminControls /\ isAdmin /\ adminCookie = AdminKey

\* C27: in every state isAdmin is true only if an admin_key cookie is stored,
\* also when logout is called while the validation request is in flight.
C27_AdminOnlyWithCookie == isAdmin => adminCookie # Null

----------------------------------------------------------------------------
(* The provider's status flags *)

\* C28: loading is true whenever a request issued by loadUserData awaits its
\* response; loading is false only when no request is outstanding.
C28_LoadingWhileInFlight == fetches # {} => loading

\* C29: in every state of the data provider an error message and cached data
\* never coexist: error non-null implies userData null.
C29_ErrorExcludesData == error # Null => userData = NoUserData

----------------------------------------------------------------------------
(* The spines placed *)

\* C30: the spines placed are a prefix of the spines in loop order (the admin
\* spine first if present, then the read books sorted): the band index never
\* decreases, a spine that wraps past the last band is dropped with every
\* later one, and there are at most as many rectangles as read books plus one.
C30_PlacedSpinesArePrefix ==
  loopRuns =>
    LET dims == currentDims
        states == currentStates
        bands == Len(currentShelves)
    IN  /\ Len(dims) = Len(readBooks) + (IF isAdmin THEN 1 ELSE 0)
        /\ Len(spinePositions) <= Len(dims)
        /\ Len(spinePositions) <= Len(readBooks) + 1
        /\ \A i \in 1..Len(spinePositions) : spinePositions[i].book = dims[i].book
        /\ \A k \in 1..Len(dims) :
             /\ states[k + 1].currentShelfIndex >= states[k].currentShelfIndex
             /\ states[k + 1].currentShelfIndex >= bands
                  => states[k + 1].positions = states[k].positions
             /\ states[k + 1].currentShelfIndex < bands
                  => Len(states[k + 1].positions) = k
        /\ spinePositions = states[Len(states)].positions

\* a shelf of 45 books in the 1600x900 window: the three bands are used up
\* and the last read books are not placed
C30_Witness ==
  /\ viewportWidth = 1600
  /\ Len(readBooks) = 45
  /\ containerDimensions.width > 0 /\ containerDimensions.height > 0
  /\ Len(spinePositions) > 0
  /\ Len(spinePositions) < Len(readBooks)

----------------------------------------------------------------------------
(* The login form *)

\* C24: the login form writes the admin cookie, and redirects, only on
\* handling a response that is ok and says is_admin, and the cookie is then
\* the key that was sent; it sends no request for a key that is empty once
\* trimmed; on handling a rejected request, a response that is not ok or one
\* that does not say is_admin it writes no cookie, sets an error message and
\* does not redirect; the loading flag is false whenever no request awaits
\* its response.
C24_CookieOnlyForAdminKey ==
  [][ LET answered == loginRequest # Null /\ loginRequest' = Null
          accepted == loginResponse'.kind = "ok" /\ loginResponse'.is_admin
      IN  /\ (adminCookie' # adminCookie \/ (redirected' /\ ~redirected))
                => (answered /\ accepted /\ adminCookie' = loginRequest)
          /\ loginRequests' # loginRequests
                => (apiKey \notin { "", " " } /\ loginRequest' = apiKey)
          /\ (answered /\ ~accepted)
                => /\ adminCookie' = adminCookie
                   /\ loginError' # ""
                   /\ redirected' = redirected
          /\ (answered /\ accepted) => (adminCookie' = loginRequest /\ redirected')
          /\ loginRequest' = Null => ~loginLoading' ]_vars

\* a second request, sent after the first was turned down, was accepted: the
\* cookie holds the key and the form has redirected
C24_Witness ==
  /\ loginRequests = 2
  /\ loginResponse = [kind |-> "ok", is_admin |-> TRUE]
  /\ adminCookie = AdminKey
  /\ redirected
  /\ ~loginLoading

----------------------------------------------------------------------------
(* The refresh button *)

\* a request for username's collection was issued after the re-scrape succeeded
fetchedSinceRefresh(username) ==
  \E i \in (refreshMark + 1)..Len(fetchLog) : fetchLog[i] = username

\* C25: after a successful re-scrape the selected username ends as the user
\* selected when the refresh button was clicked and a new request for that
\* user's collection is issued; on any other outcome the selected username is
\* unchanged and an error message is set; the refreshing flag is false after
\* every outcome.
C25_RefreshReloadsUser ==
  /\ [][ (refreshStage = "timer" /\ refreshStage' = "remounted"
            /\ refreshUser \in Usernames)
           => selectedUsername' = refreshUser ]_vars
  /\ [] ( (refreshStage = "remounted" /\ effectsDone /\ refreshUser \in Usernames)
            => fetchedSinceRefresh(refreshUser) )
  /\ [][ (refreshStage \in { "user", "scrape" } /\ refreshStage' = "idle")
           => (selectedUsername' = selectedUsername /\ pageError' # "") ]_vars
  /\ [][ (refreshing /\ refreshStage' \in { "idle", "timer" }) => ~refreshing' ]_vars

----------------------------------------------------------------------------
(* The image-loaded flag *)

\* C23: imageLoaded eventually becomes true, the img element's load and
\* error events firing or not (the 3-second timeout sets it), and once true
\* it is never false again.
C23_ImageLoadedEventually ==
  /\ <>imageLoaded
  /\ [][ imageLoaded => imageLoaded' ]_vars

\* the timeout has set the flag, the image having fired no event
C23_Witness ==
  /\ imageLoaded
  /\ imageEvent = "none"

====
